---- MODULE Spec2Model ----
(***************************************************************************)
(* SongkickIntegration (src/songkick_integrations.py): the response        *)
(* classifier, the request headers and the four public operations          *)
(* search_location, track_untrack_location, get_events, get_event_details. *)
(*                                                                         *)
(* A Python value is a record tagged by its type in field t:               *)
(*   [t |-> "none"]                 None                                   *)
(*   [t |-> "str",  s |-> "..."]    a string                               *)
(*   [t |-> "num",  n |-> 1]        a number                               *)
(*   [t |-> "list", items |-> <<>>] a list                                 *)
(*   [t |-> "dict", f |-> fn]       a dict, fn a function from its keys    *)
(* An HTML element found by BeautifulSoup is a record of its attributes    *)
(* and of the children the code looks up; a lookup that finds nothing      *)
(* gives None, as find / select_one / Tag.get do.                          *)
(***************************************************************************)
EXTENDS Integers, Sequences, FiniteSets, TLC

VARIABLES cookies, user_agent, network_requester, pc, op, input, sent, outcome

vars == <<cookies, user_agent, network_requester, pc, op, input, sent, outcome>>

(* ------------------------------ bounds -------------------------------- *)
MaxItems == 2     \* list items (rows) on a search-results or calendar page
MaxTickets == 2   \* .buy-ticket-link elements on an event page

(* --------------------------- Python values ---------------------------- *)
None == [t |-> "none"]
Str(s) == [t |-> "str", s |-> s]
Num(n) == [t |-> "num", n |-> n]
List(items) == [t |-> "list", items |-> items]
Dict(f) == [t |-> "dict", f |-> f]
EmptyFn == [k \in {} |-> None]

IsNone(v) == v.t = "none"
IsStr(v) == v.t = "str"
IsDict(v) == v.t = "dict"

\* str(v), as an f-string renders v
PyStr(v) ==
  CASE v.t = "str" -> v.s
    [] v.t = "none" -> "None"
    [] v.t = "num" -> ToString(v.n)
    [] v.t = "list" -> "[]"
    [] OTHER -> "{}"

\* truthiness of v, as `if v` tests it
Truthy(v) ==
  CASE v.t = "none" -> FALSE
    [] v.t = "str" -> v.s # ""
    [] v.t = "num" -> v.n # 0
    [] v.t = "list" -> v.items # <<>>
    [] v.t = "dict" -> DOMAIN v.f # {}
    [] OTHER -> TRUE

\* d.get(key, default) on a dict d
DictGet(d, key, default) == IF key \in DOMAIN d.f THEN d.f[key] ELSE default

(* ----------------------------- outcomes ------------------------------- *)
\* what a call ends with: a returned value, or a raised exception with the
\* constructor arguments the code gives it
Returned(v) == [kind |-> "return", value |-> v]
Raised(exc, message, status, code) ==
  [kind |-> "raise", exc |-> exc, message |-> message, status |-> status, code |-> code]
NoOutcome == [kind |-> "none"]

integration_name == "songkick"
SiteUrl == "https://www.songkick.com"

(* ------------------------ response classifier ------------------------- *)
Statuses == {200, 201, 203, 204, 302, 400, 401, 404, 500}

ErrorObjects ==
  { Dict(EmptyFn),
    Dict("message" :> Str("Resource not found.")),
    Dict("message" :> Str("Resource not found.") @@ "code" :> Str("E404")),
    Dict("message" :> Str("boom") @@ "code" :> Str("E1")),
    Dict("code" :> Str("E1")) }

\* what response.json() can give: any JSON value, or an exception when the
\* body is not JSON
Unparsable == [t |-> "unparsable"]
JsonBodies ==
  { None, Str("oops"), Num(7), List(<<>>), Dict(EmptyFn),
    Dict("status" :> Str("ok")),
    Dict("error" :> Str("boom")),
    Dict("error" :> None) }
  \cup { Dict("error" :> e) : e \in ErrorObjects }
Bodies == JsonBodies \cup {Unparsable}

\* lines 78-84: the parsed body, or the synthesized one
ResponseJson(response) ==
  IF response.body = Unparsable
    THEN Dict("error" :> Dict("message" :> Str("Unknown error")
                              @@ "code" :> Str(ToString(response.status))))
    ELSE response.body

AttributeError == Raised("AttributeError", "", 0, None)

\* lines 64-124
handle_response(response) ==
  LET response_json == ResponseJson(response)
      status == response.status
  IN IF 200 <= status /\ status < 204 THEN Returned(response_json)
     ELSE IF ~IsDict(response_json) THEN AttributeError
     ELSE LET error == DictGet(response_json, "error", Dict(EmptyFn))
          IN IF ~IsDict(error) THEN AttributeError
             ELSE LET error_message == DictGet(error, "message", Str("Unknown error"))
                      error_code == DictGet(error, "code", Str(ToString(status)))
                  IN CASE status = 401 ->
                            Raised("IntegrationAuthError",
                                   integration_name \o ": " \o PyStr(error_message),
                                   status, error_code)
                       [] status = 400 /\ error_message = Str("Resource not found.") ->
                            Raised("IntegrationAPIError", "Resource not found.",
                                   status, error_code)
                       [] status = 400 /\ error_message # Str("Resource not found.") ->
                            Raised("IntegrationAPIError",
                                   "Bad request: " \o PyStr(error_message),
                                   status, error_code)
                       [] status = 500 ->
                            Raised("IntegrationAPIError",
                                   "Downstream server error (translated to HTTP 501): "
                                     \o PyStr(error_message),
                                   501, error_code)
                       [] OTHER ->
                            Raised("IntegrationAPIError",
                                   PyStr(error_message) \o " (HTTP "
                                     \o ToString(status) \o ")",
                                   status, error_code)

(* ------------------------------ headers ------------------------------- *)
\* lines 126-134
setup_headers == "User-Agent" :> user_agent @@ "Cookie" :> cookies

\* line 22: requests.Session() starts with the library's default headers
SessionHeaders == "User-Agent" :> "python-requests" @@ "Accept" :> "*/*"

\* requests merges the headers of one call over the session's
MergeHeaders(session_headers, headers) ==
  [h \in DOMAIN session_headers \cup DOMAIN headers |->
     IF h \in DOMAIN headers THEN headers[h] ELSE session_headers[h]]

\* a request as it leaves the process; data is the form of a POST, or None
Request(via, method, url, headers, data) ==
  [via |-> via, method |-> method, url |-> url, headers |-> headers, data |-> data]

\* lines 158-160, 236-242, 265-270, 339-341: self.session.<method>(url,
\* headers={"Cookie": self.cookies}), the one header every session call passes
SessionRequest(method, url, data) ==
  Request("session", method, url,
          MergeHeaders(SessionHeaders, "Cookie" :> cookies), data)

(* ---------------------------- construction ---------------------------- *)
CookieStrings == {"sk_session=abc", "sk_session=xyz"}
UserAgents == {"Mozilla/5.0 (X11)", "Opera/9.80"}

\* lines 17-42: the instance create() hands back
Init ==
  /\ cookies \in CookieStrings
  /\ user_agent \in UserAgents
  /\ network_requester \in BOOLEAN
  /\ pc = "ready"
  /\ op = "none"
  /\ input = None
  /\ sent = <<>>
  /\ outcome = NoOutcome

Instance == <<cookies, user_agent, network_requester>>

Responses == [status : Statuses, body : Bodies]

(* ------------------------ generic_make_request ------------------------ *)
ApiUrls == {SiteUrl \o "/api/a"}

\* lines 44-62 and 136-150: with a requester the response is handed back as
\* it is, without one it goes through the classifier
generic_make_request ==
  /\ pc = "ready"
  /\ \E method \in {"GET", "POST"}, url \in ApiUrls, response \in Responses :
     /\ pc' = "done"
     /\ op' = "generic_make_request"
     /\ input' = response
     /\ sent' = <<Request(IF network_requester THEN "requester" ELSE "aiohttp",
                          method, url, setup_headers, None)>>
     /\ outcome' = IF network_requester
                     THEN Returned(Dict("response" :> response.body))
                     ELSE LET r == handle_response(response)
                          IN IF r.kind = "return"
                               THEN Returned(Dict("response" :> r.value))
                               ELSE r
  /\ UNCHANGED Instance

(* ------------------------- the session's calls ------------------------ *)
SessionStatuses == {200, 201, 404, 500}

\* `needle in response.text`: a response text carries the set of the known
\* strings it contains
Contains(text, needle) == needle \in text.marks

\* Response.raise_for_status(): HTTPError for a 4xx or 5xx status
RaisesForStatus(status) == 400 <= status /\ status < 600
HTTPError(status) == Raised("HTTPError", "", status, None)

\* the session call itself failing (no connection, a timeout)
ConnectionFailed == [failed |-> TRUE]
ConnectionError == Raised("ConnectionError", "", 0, None)

\* the exceptions a lookup on a missing element or attribute raises
TypeError == Raised("TypeError", "", 0, None)
KeyError == Raised("KeyError", "", 0, None)
IndexError == Raised("IndexError", "", 0, None)

\* fastapi.HTTPException(status_code, detail)
HTTPException(status, detail) == Raised("HTTPException", detail, status, None)

(* ----------------------- track_untrack_location ----------------------- *)
StatusOkMark == "\"status\":\"ok\""

TrackRequests ==
  [authenticity_token : {"tok1"}, relationship_type : {"is_tracking"},
   subject_id : {"24426", "17835"}, subject_type : {"MetroArea"},
   success_url : {"/search"}, untrack : BOOLEAN]

\* the bodies the POST can come back with: the text and what .json() makes of it
TrackingTexts ==
  { [marks |-> {}, json |-> Unparsable],
    [marks |-> {}, json |-> Dict("status" :> Str("failed"))],
    [marks |-> {StatusOkMark}, json |-> Dict("status" :> Str("ok"))],
    [marks |-> {StatusOkMark}, json |-> List(<<>>)],
    [marks |-> {StatusOkMark}, json |-> Unparsable] }
TrackingUpstreams ==
  {ConnectionFailed} \cup [failed : {FALSE}, status : SessionStatuses, text : TrackingTexts]

\* lines 218-221
TrackingsUrl(request) ==
  IF request.untrack THEN SiteUrl \o "/trackings" \o "/untrack"
                     ELSE SiteUrl \o "/trackings"

\* lines 227-234
TrackingsForm(request) ==
  "utf8" :> "%E2%9C%93"
  @@ "authenticity_token" :> request.authenticity_token
  @@ "relationship_type" :> request.relationship_type
  @@ "subject_id" :> request.subject_id
  @@ "subject_type" :> request.subject_type
  @@ "success_url" :> request.success_url

StatusOk == Dict("status" :> Str("ok"))
StatusFailed == Dict("status" :> Str("failed"))

\* lines 243-258: the try block, entered once the POST has returned
TrackingsResult(response) ==
  IF RaisesForStatus(response.status) THEN Returned(StatusFailed)
  ELSE IF response.status = 200 /\ ~Contains(response.text, StatusOkMark)
    THEN Returned(StatusOk)
  ELSE IF response.status # 200 THEN Returned(StatusFailed)
  ELSE IF response.text.json = Unparsable THEN Returned(StatusFailed)
  ELSE Returned(response.text.json)

\* lines 236-242: the POST is issued before the try block is entered
TrackingsOutcome(upstream) ==
  IF upstream.failed THEN ConnectionError ELSE TrackingsResult(upstream)

\* lines 217-258
track_untrack_location ==
  /\ pc = "ready"
  /\ \E request \in TrackRequests, upstream \in TrackingUpstreams :
     /\ pc' = "done"
     /\ op' = "track_untrack_location"
     /\ input' = [request |-> request, upstream |-> upstream]
     /\ sent' = <<SessionRequest("POST", TrackingsUrl(request), TrackingsForm(request))>>
     /\ outcome' = TrackingsOutcome(upstream)
  /\ UNCHANGED Instance

(* -------------------------- HTML documents ---------------------------- *)
\* an element: its attributes (a function from the names present) and text
Tag(attrs, text) == [t |-> "tag", attrs |-> attrs, text |-> text]

HasAttr(tag, name) == name \in DOMAIN tag.attrs

\* find(...): the first of the elements els, in document order, among those
\* at the matching places hits, or None
Find(els, hits) ==
  IF hits = {} THEN None
  ELSE els[CHOOSE i \in hits : \A j \in hits : i <= j]
AnyOf(els) == DOMAIN els
WithClass(els, class) ==
  { i \in DOMAIN els : "class" \in DOMAIN els[i].attrs /\ els[i].attrs["class"] = class }

\* str.strip() of the texts the pages below hold
StripText(text) ==
  CASE text = " London, UK " -> "London, UK"
    [] text = " The Fillmore " -> "The Fillmore"
    [] text = " San Francisco, CA, US " -> "San Francisco, CA, US"
    [] text = " 1805 Geary Blvd " -> "1805 Geary Blvd"
    [] OTHER -> text

\* all sequences over S of length at most n
SeqsUpTo(S, n) == UNION { [1..k -> S] : k \in 0..n }

(* --------------------------- search_location -------------------------- *)
NoResultsMark == "Sorry, we found no results for"

LocationNames == { <<"New", "York">> }

\* a location name is given as its words, which single spaces separate
RECURSIVE JoinWords(_, _)
JoinWords(words, sep) ==
  IF Len(words) = 0 THEN ""
  ELSE IF Len(words) = 1 THEN words[1]
  ELSE words[1] \o sep \o JoinWords(Tail(words), sep)
\* location_name itself, and location_name.replace(' ', '+')
Name(words) == JoinWords(words, " ")
PlusJoin(words) == JoinWords(words, "+")

\* line 154
LocationsUrl(location_name) ==
  SiteUrl \o "/search?utf8=%E2%9C%93&type=locations&query="
          \o PlusJoin(location_name) \o "&commit=Search"

\* the a.search-link elements of an li.small-city, in document order; in_p
\* says whether the link sits inside the li's p.summary
SearchLink(attrs, text, in_p) ==
  [t |-> "tag", attrs |-> attrs, text |-> text, in_p |-> in_p]
ThumbAttrs == "data-id" :> "24426" @@ "href" :> "/metro-areas/24426-uk-london"
SearchLinkAttrs ==
  { ThumbAttrs, "data-id" :> "24426", "href" :> "/metro-areas/24426-uk-london" }
ThumbLink(attrs) == SearchLink(attrs, "", FALSE)
SummaryLink == SearchLink(ThumbAttrs, " London, UK ", TRUE)

TrackInputNames == {"authenticity_token", "relationship_type", "subject_type", "success_url"}
InputValue(name) == "v_" \o name
FullInputs == [n \in TrackInputNames |-> Tag("name" :> n @@ "value" :> InputValue(n), "")]
\* the inputs of a form with one input left out, or left without a value
InputsWithout(name) == [n \in TrackInputNames |-> IF n = name THEN None ELSE FullInputs[n]]
InputsNoValue(name) ==
  [n \in TrackInputNames |-> IF n = name THEN Tag("name" :> n, "") ELSE FullInputs[n]]
TrackForm(attrs, inputs) == [t |-> "tag", attrs |-> attrs, inputs |-> inputs]
TrackFormAttrs == "data-analytics-category" :> "track_metro_area_button"
ActionAttrs == TrackFormAttrs @@ "action" :> "/trackings"
FullForm == TrackForm(ActionAttrs, FullInputs)
TrackForms ==
  { None, FullForm, TrackForm(TrackFormAttrs, FullInputs) }
  \cup { TrackForm(ActionAttrs, InputsWithout(n)) : n \in TrackInputNames }
  \cup { TrackForm(ActionAttrs, InputsNoValue(n)) : n \in TrackInputNames }

\* an li.small-city: its search links, whether it has a p.summary, its form
SmallCity(links, has_summary, form) ==
  [links |-> links, has_summary |-> has_summary, form |-> form]
SmallCityLinks ==
  { <<>>, <<SummaryLink>>, <<ThumbLink(ThumbAttrs)>> }
  \cup { <<ThumbLink(a), SummaryLink>> : a \in SearchLinkAttrs }
SmallCities ==
  { SmallCity(<<ThumbLink(ThumbAttrs), SummaryLink>>, TRUE, f) : f \in TrackForms }
  \cup { SmallCity(l, TRUE, f) : l \in SmallCityLinks, f \in {None, FullForm} }
  \cup { SmallCity(l, FALSE, None) : l \in { <<>>, <<ThumbLink(ThumbAttrs)>> } }

LocationPages ==
  [marks : {{}, {NoResultsMark}}, items : SeqsUpTo(SmallCities, MaxItems)]
LocationUpstreams ==
  {ConnectionFailed} \cup [failed : {FALSE}, status : {200, 201, 404, 500}, text : LocationPages]

\* a variant of TrackFields that reads every field leniently: a missing
\* action, input or value leaves that one field None
TrackFieldsLenient(track_form) ==
  IF IsNone(track_form)
    THEN Returned([n \in TrackInputNames \cup {"track_url"} |-> None])
  ELSE Returned([n \in TrackInputNames \cup {"track_url"} |->
         IF n = "track_url"
           THEN (IF HasAttr(track_form, "action")
                   THEN Str(SiteUrl \o track_form.attrs["action"]) ELSE None)
         ELSE IF IsNone(track_form.inputs[n]) \/ ~HasAttr(track_form.inputs[n], "value")
           THEN None
         ELSE Str(track_form.inputs[n].attrs["value"])])

\* lines 184-199: the five tracking fields of one li, or the exception the
\* lookups raise
TrackFields(track_form) ==
  IF IsNone(track_form)
    THEN Returned([n \in TrackInputNames \cup {"track_url"} |-> None])
  ELSE IF ~HasAttr(track_form, "action") THEN KeyError
  ELSE LET Missing(n) == IsNone(track_form.inputs[n])
           NoValue(n) == ~Missing(n) /\ ~HasAttr(track_form.inputs[n], "value")
           Order == <<"authenticity_token", "relationship_type", "subject_type", "success_url">>
           Bad == { i \in 1..4 : Missing(Order[i]) \/ NoValue(Order[i]) }
           first == CHOOSE i \in Bad : \A j \in Bad : i <= j
       IN IF Bad # {}
            THEN (IF Missing(Order[first]) THEN TypeError ELSE KeyError)
            ELSE Returned([n \in TrackInputNames \cup {"track_url"} |->
                   IF n = "track_url" THEN Str(SiteUrl \o track_form.attrs["action"])
                   ELSE Str(track_form.inputs[n].attrs["value"])])

\* lines 174-212: the record built from one li, or the exception raised
LocationRecord(li) ==
  LET link == Find(li.links, AnyOf(li.links))
      summary_link == Find(li.links, { i \in DOMAIN li.links : li.links[i].in_p })
  IN IF ~li.has_summary THEN AttributeError
     ELSE IF IsNone(summary_link) THEN AttributeError
     ELSE IF IsNone(link) THEN TypeError
     ELSE IF ~HasAttr(link, "data-id") THEN KeyError
     ELSE IF ~HasAttr(link, "href") THEN KeyError
     ELSE LET track == TrackFields(li.form)
          IN IF track.kind = "raise" THEN track
             ELSE Returned(Dict(
                    "name" :> Str(StripText(summary_link.text))
                    @@ "subject_id" :> Str(link.attrs["data-id"])
                    @@ "url" :> Str(SiteUrl \o link.attrs["href"])
                    @@ track.value))

\* a variant of SearchLoop that returns after the loop, with every li's record
RECURSIVE CollectAll(_, _)
CollectAll(items, found) ==
  IF Len(items) = 0 THEN Returned(Dict("locations" :> List(found)))
  ELSE LET r == LocationRecord(Head(items))
       IN IF r.kind = "raise" THEN r
          ELSE CollectAll(Tail(items), Append(found, r.value))
SearchLoopAll(items) == CollectAll(items, <<>>)

\* lines 171-215: the loop returns from inside its first iteration; with no
\* li the function falls off its end and returns None
SearchLoop(items) ==
  IF Len(items) = 0 THEN Returned(None)
  ELSE LET r == LocationRecord(items[1])
       IN IF r.kind = "raise" THEN r
          ELSE Returned(Dict("locations" :> List(<<r.value>>)))

\* a variant of SearchOutcome that looks for the banner only on a page without
\* list items
SearchOutcomeBannerLast(location_name, upstream) ==
  IF upstream.failed THEN ConnectionError
  ELSE IF RaisesForStatus(upstream.status) THEN HTTPError(upstream.status)
  ELSE IF Len(upstream.text.items) = 0 /\ Contains(upstream.text, NoResultsMark)
    THEN HTTPException(404, "No results found for " \o Name(location_name))
  ELSE SearchLoop(upstream.text.items)

\* lines 158-215
SearchOutcome(location_name, upstream) ==
  IF upstream.failed THEN ConnectionError
  ELSE IF RaisesForStatus(upstream.status) THEN HTTPError(upstream.status)
  ELSE IF Contains(upstream.text, NoResultsMark)
    THEN HTTPException(404, "No results found for " \o Name(location_name))
  ELSE SearchLoop(upstream.text.items)

\* lines 152-215
search_location ==
  /\ pc = "ready"
  /\ \E location_name \in LocationNames, upstream \in LocationUpstreams :
     /\ pc' = "done"
     /\ op' = "search_location"
     /\ input' = [location_name |-> location_name, upstream |-> upstream]
     /\ sent' = <<SessionRequest("GET", LocationsUrl(location_name), None)>>
     /\ outcome' = SearchOutcome(location_name, upstream)
  /\ UNCHANGED Instance

(* ----------------------------- get_events ----------------------------- *)
\* line 275: the banner the code looks for (the source spells its apostrophe
\* as the three characters of a wrongly decoded one)
TrackedMark == "All upcoming concerts from the artists you...re tracking."

Classed(class, attrs, text) == Tag("class" :> class @@ attrs, text)

\* an li[title]: its time, its p.artists.summary (with its strong), its
\* p.location (with its spans), its a elements and its img, None when missing
EventRow(time, artist_tag, venue_tag, links, img) ==
  [time |-> time, artist_tag |-> artist_tag, venue_tag |-> venue_tag,
   links |-> links, img |-> img]
ArtistTag(strong) == [t |-> "tag", strong |-> strong]
VenueTag(spans) == [t |-> "tag", spans |-> spans]

TimeTag == Tag("datetime" :> "2025-03-01T20:00:00-0800", "")
StrongTag == Tag(EmptyFn, "Caribou")
VenueSpan == Classed("venue-name", EmptyFn, " The Fillmore ")
CitySpan == Tag(EmptyFn, " San Francisco, CA, US ")
StreetSpan == Classed("street-address", EmptyFn, " 1805 Geary Blvd ")
EventLink(href) == Tag("href" :> href, "")
BuyLink(href) == Classed("button buy-tickets", "href" :> href, "Buy tickets")
ImgTag == Tag("src" :> "//images.sk-static.com/images/123/medium_avatar", "")
FullLinks == <<EventLink("/concerts/123"), BuyLink("/concerts/123#tickets")>>

EventRows ==
  { EventRow(TimeTag, ArtistTag(StrongTag), VenueTag(<<VenueSpan, CitySpan, StreetSpan>>),
             FullLinks, ImgTag),
    EventRow(None, None, None, <<>>, None),
    EventRow(Tag(EmptyFn, "1 March"), None, None, <<>>, None),
    EventRow(TimeTag, ArtistTag(None), None, <<>>, None),
    EventRow(TimeTag, ArtistTag(StrongTag), VenueTag(<<>>), FullLinks, ImgTag),
    EventRow(TimeTag, ArtistTag(StrongTag), VenueTag(<<VenueSpan>>), FullLinks, ImgTag),
    EventRow(TimeTag, ArtistTag(StrongTag), VenueTag(<<VenueSpan, CitySpan>>),
             <<BuyLink("/concerts/9#tickets")>>, None),
    EventRow(None, None, None, <<Tag(EmptyFn, "more")>>, None),
    EventRow(None, None, None, <<EventLink("")>>, Tag(EmptyFn, "")) }

\* `prefix + value if value else None`, value a string or None
PrefixedOrNone(prefix, value) ==
  IF Truthy(value) THEN Str(prefix \o PyStr(value)) ELSE None

\* elem[name] on a found element: the attribute, or KeyError
Attr(tag, name) == IF HasAttr(tag, name) THEN Returned(Str(tag.attrs[name])) ELSE KeyError

\* lines 291-331: the record of one li, or the exception a lookup raises
EventRecord(event) ==
  LET date_time == IF IsNone(event.time) THEN Returned(None)
                   ELSE Attr(event.time, "datetime")
      artist_tag == event.artist_tag
      artist_name == IF IsNone(artist_tag) THEN Returned(None)
                     ELSE IF IsNone(artist_tag.strong) THEN AttributeError
                     ELSE Returned(Str(artist_tag.strong.text))
      venue_tag == event.venue_tag
      venue_span == Find(venue_tag.spans, WithClass(venue_tag.spans, "venue-name"))
      venue_name == IF IsNone(venue_tag) THEN Returned(None)
                    ELSE IF IsNone(venue_span) THEN AttributeError
                    ELSE Returned(Str(StripText(venue_span.text)))
      city_state == IF IsNone(venue_tag) THEN Returned(None)
                    ELSE IF Len(venue_tag.spans) < 2 THEN IndexError
                    ELSE Returned(Str(StripText(venue_tag.spans[2].text)))
      street_span == Find(venue_tag.spans, WithClass(venue_tag.spans, "street-address"))
      street_address == IF IsNone(venue_tag) \/ IsNone(street_span) THEN Returned(None)
                        ELSE Returned(Str(StripText(street_span.text)))
      a == Find(event.links, AnyOf(event.links))
      event_url == IF IsNone(a) THEN Returned(None) ELSE Attr(a, "href")
      image_url == IF IsNone(event.img) THEN Returned(None) ELSE Attr(event.img, "src")
      buy == Find(event.links, WithClass(event.links, "button buy-tickets"))
      ticket_url == IF IsNone(buy) THEN Returned(None) ELSE Attr(buy, "href")
      steps == <<date_time, artist_name, venue_name, city_state, street_address,
                 event_url, image_url, ticket_url>>
      bad == { i \in 1..Len(steps) : steps[i].kind = "raise" }
  IN IF bad # {} THEN steps[CHOOSE i \in bad : \A j \in bad : i <= j]
     ELSE Returned(Dict(
            "date_time" :> date_time.value
            @@ "artist" :> artist_name.value
            @@ "venue" :> venue_name.value
            @@ "location" :> city_state.value
            @@ "street_address" :> street_address.value
            @@ "event_url" :> PrefixedOrNone(SiteUrl, event_url.value)
            @@ "image_url" :> PrefixedOrNone("https:", image_url.value)
            @@ "ticket_url" :> PrefixedOrNone(SiteUrl, ticket_url.value)))

\* lines 286-335: the loop over the rows; the first exception ends it
RECURSIVE EventsLoop(_, _)
EventsLoop(rows, events) ==
  IF Len(rows) = 0 THEN Returned(Dict("events" :> List(events)))
  ELSE LET r == EventRecord(Head(rows))
       IN IF r.kind = "raise" THEN r
          ELSE EventsLoop(Tail(rows), Append(events, r.value))

EventPages == [marks : {{}, {TrackedMark}}, items : SeqsUpTo(EventRows, MaxItems)]
EventUpstreams ==
  {ConnectionFailed} \cup [failed : {FALSE}, status : {200, 201, 404}, text : EventPages]

\* lines 265-335
EventsOutcome(upstream) ==
  IF upstream.failed THEN ConnectionError
  ELSE IF RaisesForStatus(upstream.status) THEN HTTPError(upstream.status)
  ELSE IF upstream.status # 200 /\ ~Contains(upstream.text, TrackedMark)
    THEN HTTPException(upstream.status, "Failed to fetch concert events")
  ELSE EventsLoop(upstream.text.items, <<>>)

\* lines 260-335
get_events ==
  /\ pc = "ready"
  /\ \E upstream \in EventUpstreams :
     /\ pc' = "done"
     /\ op' = "get_events"
     /\ input' = [upstream |-> upstream]
     /\ sent' = <<SessionRequest("GET", SiteUrl \o "/calendar?filter=tracked_artist", None)>>
     /\ outcome' = EventsOutcome(upstream)
  /\ UNCHANGED Instance

(* -------------------------- get_event_details ------------------------- *)
\* a text given as its pieces, so that replace and split can cut it
RECURSIVE Concat(_)
Concat(pieces) == IF Len(pieces) = 0 THEN "" ELSE Head(pieces) \o Concat(Tail(pieces))

\* str.replace(old, new), old one of the pieces
Replace(pieces, old, new) ==
  [i \in 1..Len(pieces) |-> IF pieces[i] = old THEN new ELSE pieces[i]]

\* `label in text`
HasLabel(text, label) == \E i \in 1..Len(text) : text[i] = label

\* text.split(label + " "): the places where label is followed by a space
LabelCuts(text, label) ==
  { i \in 1..Len(text) - 1 : text[i] = label /\ text[i + 1] = " " }
\* text.split(label + " ")[1], or IndexError when the split finds nothing
AfterLabel(text, label) ==
  LET cuts == LabelCuts(text, label)
      first == CHOOSE i \in cuts : \A j \in cuts : i <= j
      later == { j \in cuts : j > first }
      stop == IF later = {} THEN Len(text) + 1
              ELSE CHOOSE j \in later : \A k \in later : j <= k
  IN IF cuts = {} THEN IndexError
     ELSE Returned(SubSeq(text, first + 2, stop - 1))
\* part.split(" ")[0]
FirstWord(part) ==
  LET spaces == { i \in 1..Len(part) : part[i] = " " }
      stop == IF spaces = {} THEN Len(part) + 1
              ELSE CHOOSE i \in spaces : \A j \in spaces : i <= j
  IN SubSeq(part, 1, stop - 1)

\* lines 397-406
AdditionalDetails(container) ==
  IF IsNone(container)
    THEN Returned(Dict("price" :> None @@ "doors_open" :> None))
  ELSE LET details_text == container.text
           price == IF HasLabel(details_text, "Price:")
                      THEN AfterLabel(details_text, "Price:")
                      ELSE Returned(<<>>)
           doors == IF HasLabel(details_text, "Doors open:")
                      THEN AfterLabel(details_text, "Doors open:")
                      ELSE Returned(<<>>)
       IN IF price.kind = "raise" THEN price
          ELSE IF doors.kind = "raise" THEN doors
          ELSE Returned(Dict(
                 "price" :> (IF HasLabel(details_text, "Price:")
                               THEN Str(Concat(FirstWord(price.value))) ELSE None)
                 @@ "doors_open" :> (IF HasLabel(details_text, "Doors open:")
                                       THEN Str(Concat(doors.value)) ELSE None)))

\* lines 374-384: one .buy-ticket-link; Tag.get("href") is None without the
\* attribute, and the f-string renders it as it is
TicketOption(ticket) ==
  LET vendor == IF IsNone(ticket.vendor) THEN "Unknown Vendor" ELSE ticket.vendor.text
      link == IF HasAttr(ticket, "href") THEN Str(ticket.attrs["href"]) ELSE None
  IN Dict("vendor" :> Str(vendor) @@ "link" :> Str(SiteUrl \o PyStr(link)))

TextOrNone(tag) == IF IsNone(tag) THEN None ELSE Str(tag.text)

\* lines 346-420
EventDetails(page) ==
  LET location == IF ~IsNone(page.location_name) /\ ~IsNone(page.location_city)
                    THEN Str(page.location_name.text \o ", " \o page.location_city.text)
                    ELSE None
      image_url == IF IsNone(page.img) \/ ~HasAttr(page.img, "src") THEN <<>>
                   ELSE page.img.attrs["src"]
      additional == AdditionalDetails(page.additional)
  IN IF additional.kind = "raise" THEN additional
     ELSE Returned(Dict("event_details" :> Dict(
            "event_date_time" :> TextOrNone(page.date_p)
            @@ "name" :> TextOrNone(page.summary_a)
            @@ "location" :> location
            @@ "image_url" :>
                 (IF Concat(image_url) = "" THEN None
                  ELSE Str("https:" \o Concat(Replace(image_url, "medium_avatar", "huge_avatar"))))
            @@ "ticketing_information" :>
                 List([i \in 1..Len(page.tickets) |-> TicketOption(page.tickets[i])])
            @@ "venue_information" :>
                 Dict("name" :> TextOrNone(page.venue_a)
                      @@ "address" :> TextOrNone(page.venue_span))
            @@ "additional_details" :> additional.value)))

\* the elements the selectors of lines 346-398 look up, None when missing
DetailPage(date_p, summary_a, location_name, location_city, img, tickets, venue_a, venue_span, additional) ==
  [date_p |-> date_p, summary_a |-> summary_a, location_name |-> location_name,
   location_city |-> location_city, img |-> img, tickets |-> tickets,
   venue_a |-> venue_a, venue_span |-> venue_span, additional |-> additional]

Ticket(attrs, vendor) == [t |-> "tag", attrs |-> attrs, vendor |-> vendor]
Tickets ==
  { Ticket("href" :> "/tickets/456", Tag(EmptyFn, "Ticketmaster")),
    Ticket("href" :> "/tickets/456", None),
    Ticket(EmptyFn, Tag(EmptyFn, "Ticketmaster")) }
ProfileImgs ==
  { None, Tag(EmptyFn, ""),
    Tag("src" :> <<"//images.sk-static.com/images/123/", "medium_avatar">>, "") }
DetailsTexts ==
  { <<"Price:", " ", "$20", " ", "Doors open:", " ", "19:00">>,
    <<"Doors open:", " ", "19:00">>,
    <<"Price:", "$20">>,
    <<"Doors open:">>,
    <<"Additional", " ", "details">> }
Containers == {None} \cup { Tag(EmptyFn, x) : x \in DetailsTexts }
P(text) == Tag(EmptyFn, text)
DetailPages ==
  { DetailPage(h[1], h[2], h[3], h[4], i, k, h[5], h[6], c) :
      h \in { <<None, None, None, None, None, None>>,
              <<P("Sat 1 March"), P("Caribou"), P("The Fillmore"), P("San Francisco"),
                P("The Fillmore"), P("1805 Geary Blvd")>>,
              <<None, None, P("The Fillmore"), None, None, None>> },
      i \in ProfileImgs, k \in SeqsUpTo(Tickets, MaxTickets), c \in Containers }
DetailUpstreams ==
  {ConnectionFailed} \cup [failed : {FALSE}, status : {200, 404}, text : DetailPages]
EventUrls == { SiteUrl \o "/concerts/123" }

\* lines 339-422
DetailsOutcome(upstream) ==
  IF upstream.failed THEN ConnectionError
  ELSE IF RaisesForStatus(upstream.status) THEN HTTPError(upstream.status)
  ELSE EventDetails(upstream.text)

\* lines 337-422
get_event_details ==
  /\ pc = "ready"
  /\ \E event_url \in EventUrls, upstream \in DetailUpstreams :
     /\ pc' = "done"
     /\ op' = "get_event_details"
     /\ input' = [event_url |-> event_url, upstream |-> upstream]
     /\ sent' = <<SessionRequest("GET", event_url, None)>>
     /\ outcome' = DetailsOutcome(upstream)
  /\ UNCHANGED Instance

Next ==
  \/ generic_make_request
  \/ track_untrack_location
  \/ search_location
  \/ get_events
  \/ get_event_details

Spec == Init /\ [][Next]_vars

(* ------------------------------ claims -------------------------------- *)
Done(name) == pc = "done" /\ op = name
RaisedExc(names) == outcome.kind = "raise" /\ outcome.exc \in names

\* the classifier ran: generic_make_request without an injected requester
Classified == Done("generic_make_request") /\ ~network_requester

\* the "message" entry of the body's "error" object is m
BodyMessageIs(body, m) ==
  /\ IsDict(body) /\ "error" \in DOMAIN body.f
  /\ IsDict(body.f["error"]) /\ "message" \in DOMAIN body.f["error"].f
  /\ body.f["error"].f["message"] = Str(m)

\* C1: whatever the status and the parsed body, the classifier gives
\* AuthError for 401, APIError("Resource not found.", 400) for a 400 with that
\* message, APIError with status 501 for 500, and the body itself, without
\* raising, for a status in [200, 204).
C1_ClassifierTable ==
  Classified =>
    /\ input.status = 401 => RaisedExc({"IntegrationAuthError"})
    /\ (input.status = 400 /\ BodyMessageIs(input.body, "Resource not found.")) =>
         /\ RaisedExc({"IntegrationAPIError"})
         /\ outcome.message = "Resource not found."
         /\ outcome.status = 400
    /\ input.status = 500 =>
         RaisedExc({"IntegrationAPIError"}) /\ outcome.status = 501
    /\ (200 <= input.status /\ input.status < 204 /\ input.body # Unparsable) =>
         outcome = Returned(Dict("response" :> input.body))

\* C9: the classifier is total: whatever the status and the body, it returns
\* or raises one of its two typed errors, and raises nothing else.
C9_ClassifierTotal ==
  Classified =>
    \/ outcome.kind = "return"
    \/ RaisedExc({"IntegrationAuthError", "IntegrationAPIError"})

\* C2: track_untrack_location never lets an exception out: it returns
\* {status: ok}, {status: failed} or the decoded JSON body, and when the POST
\* itself throws it returns {status: failed}.
C2_TrackNeverRaises ==
  Done("track_untrack_location") =>
    /\ outcome.kind = "return"
    /\ \/ outcome.value \in {StatusOk, StatusFailed}
       \/ (~input.upstream.failed /\ outcome.value = input.upstream.text.json)
    /\ input.upstream.failed => outcome.value = StatusFailed

\* C3: get_events fails, with an error that carries the response's status,
\* exactly when the status is not 200 and the banner is absent; in every
\* other case (a non-200 status with the banner included) it parses the page
\* and returns an events list.
C3_EventsFailurePolicy ==
  (Done("get_events") /\ ~input.upstream.failed) =>
    LET r == input.upstream
        fails == r.status # 200 /\ ~Contains(r.text, TrackedMark)
    IN /\ fails => (outcome.kind = "raise" /\ outcome.status = r.status)
       /\ ~fails => /\ outcome.kind = "return"
                    /\ IsDict(outcome.value)
                    /\ "events" \in DOMAIN outcome.value.f

\* the locations search_location returned (none when it raised or returned None)
ReturnedLocations ==
  IF Done("search_location") /\ outcome.kind = "return" /\ IsDict(outcome.value)
    THEN outcome.value.f["locations"].items
    ELSE <<>>

\* a page was fetched: the GET returned and raise_for_status let it through
Fetched(upstream) == ~upstream.failed /\ ~RaisesForStatus(upstream.status)

\* C4: for any fetched page whose HTML contains the no-results banner,
\* search_location fails with the 404 not-found signal and returns no
\* locations.
C4_NoResultsIsNotFound ==
  (Done("search_location") /\ Fetched(input.upstream)
     /\ Contains(input.upstream.text, NoResultsMark)) =>
    /\ RaisedExc({"HTTPException"}) /\ outcome.status = 404
    /\ ReturnedLocations = <<>>
C4_Witness ==
  /\ Done("search_location") /\ Fetched(input.upstream)
  /\ Contains(input.upstream.text, NoResultsMark)
  /\ Len(input.upstream.text.items) = MaxItems
  /\ input.upstream.text.items[1].form # None
  /\ RaisedExc({"HTTPException"})

TrackingKeys ==
  {"track_url", "authenticity_token", "relationship_type", "subject_type", "success_url"}

\* C5: in every location record search_location returns, the five tracking
\* fields are all None or all set, and a row without the tracking form has
\* all five None.
C5_TrackingFieldsTogether ==
  \A i \in 1..Len(ReturnedLocations) :
    LET rec == ReturnedLocations[i].f
    IN /\ \/ \A k \in TrackingKeys : rec[k] = None
          \/ \A k \in TrackingKeys : IsStr(rec[k])
       /\ input.upstream.text.items[i].form = None =>
            \A k \in TrackingKeys : rec[k] = None
C5_Witness ==
  /\ Len(ReturnedLocations) = 1
  /\ input.upstream.text.items[1].form = None
  /\ \A k \in TrackingKeys : ReturnedLocations[1].f[k] = None

\* C10: search_location returns from inside the first iteration of its loop:
\* whatever the number of small-city items, the returned locations list holds
\* one entry, the first item's, and never more.
C10_OnlyFirstItem ==
  (Done("search_location") /\ outcome.kind = "return" /\ IsDict(outcome.value)) =>
    /\ Len(ReturnedLocations) = 1
    /\ ReturnedLocations[1].f["subject_id"]
         = Str(input.upstream.text.items[1].links[1].attrs["data-id"])
C10_Witness ==
  /\ Len(ReturnedLocations) = 1
  /\ Len(input.upstream.text.items) = MaxItems
  /\ input.upstream.text.items[2] # input.upstream.text.items[1]

\* C6: the extractors never raise for a missing sub-element: on a fetched
\* page the only failures are the no-results signal of search_location and
\* the failed-fetch signal of get_events.
C6_ExtractorsNeverRaise ==
  (pc = "done" /\ op \in {"search_location", "get_events", "get_event_details"}
     /\ Fetched(input.upstream) /\ outcome.kind = "raise") =>
    /\ outcome.exc = "HTTPException"
    /\ op \in {"search_location", "get_events"}

\* the well-formed absolute URLs: https://, a host, an absolute path
UrlHosts == {"www.songkick.com", "images.sk-static.com"}
UrlPaths ==
  {"/concerts/123", "/concerts/123#tickets", "/concerts/9#tickets", "/tickets/456",
   "/images/123/medium_avatar", "/images/123/huge_avatar"}
AbsoluteUrls == { "https://" \o h \o p : h \in UrlHosts, p \in UrlPaths }
UrlOrNone(v) == v = None \/ (IsStr(v) /\ v.s \in AbsoluteUrls)

\* C7: every URL field get_events and get_event_details return is None or a
\* well-formed absolute URL, whatever the page is missing.
C7_UrlFieldsWellFormed ==
  /\ (Done("get_events") /\ outcome.kind = "return") =>
       \A i \in 1..Len(outcome.value.f["events"].items) :
         \A k \in {"event_url", "image_url", "ticket_url"} :
           UrlOrNone(outcome.value.f["events"].items[i].f[k])
  /\ (Done("get_event_details") /\ outcome.kind = "return") =>
       LET d == outcome.value.f["event_details"].f
       IN /\ UrlOrNone(d["image_url"])
          /\ \A i \in 1..Len(d["ticketing_information"].items) :
               UrlOrNone(d["ticketing_information"].items[i].f["link"])

\* C8: every request the four public operations issue carries the instance's
\* cookie string in Cookie and the instance's user agent in User-Agent.
C8_CookieAndUserAgent ==
  (pc = "done" /\ op \in {"search_location", "track_untrack_location",
                          "get_events", "get_event_details"}) =>
    \A i \in 1..Len(sent) :
      /\ "Cookie" \in DOMAIN sent[i].headers
      /\ sent[i].headers["Cookie"] = cookies
      /\ "User-Agent" \in DOMAIN sent[i].headers
      /\ sent[i].headers["User-Agent"] = user_agent
====
